---- MODULE Spec2Model ----
(***************************************************************************)
(* Dataset partitioning and dynamic training configuration of the          *)
(* fine-tuning drivers:                                                    *)
(*   src/fine-tuning-project/src/data/dataset_splitter.py  split_dataset   *)
(*   src/fine-tuning-project/src/data/dataset_analyzer.py                  *)
(*                                        analyze_dataset_and_configure    *)
(*                                                                         *)
(* Ratios are Python floats in the source.  Here a ratio is an integer     *)
(* number of units of 1e-7 (RatioOne units = 1.0), so sums and quotients   *)
(* are exact; the places where CPython's double arithmetic gives another   *)
(* answer than exact arithmetic, on the ratio grid of this model, are      *)
(* listed in DoubleSumPasses and DoubleCeilDrift.                          *)
(***************************************************************************)
EXTENDS Integers, Sequences, FiniteSets, TLC

VARIABLES
    split_args,      \* arguments of the last split_dataset call
    split_result,    \* its outcome: returned dict or raised exception
    analyze_args,    \* arguments of the last analyze_dataset_and_configure call
    analyze_locals,  \* its local variables at the point it returned or raised
    analyze_result,  \* its outcome: (dataset, dynamic_config) or raised exception
    entropy,         \* the state an unseeded random generator would start from
    split_history,   \* outcomes of the earlier runs of the same split_dataset call
    analyze_history, \* outcomes of the earlier runs of the analyzer
    flatten_args,    \* argument of the last _format_messages_to_text call
    flatten_result,  \* its outcome: the text or a raised exception
    lora_args,       \* arguments of the last get_dynamic_lora_config call
    lora_result,     \* its outcome: the config dictionary or a raised exception
    dist_args,       \* arguments of the last analyze_split_distribution call, as passed
    dataset_dict,    \* the caller's mapping from split name to dataset
    dist_result,     \* its outcome: the lines it reported, or a raised exception
    driver_args,     \* the script that runs, its command line and the dataset it loads
    driver,          \* the position in main() and the objects main() built so far
    early_stopping,  \* the EarlyStoppingCallback object
    stop_control,    \* the TrainerControl object the trainer hands to on_evaluate
    stop_log,        \* the on_evaluate calls so far: metrics, and the object before and after
    vram_monitor, \* the VRAMMonitorCallback object
    vram_log \* the on_step_end calls so far: telemetry, events, and the flag before and after

vars == <<split_args, split_result, analyze_args, analyze_locals, analyze_result,
          entropy, split_history, analyze_history, flatten_args, flatten_result,
          lora_args, lora_result, dist_args, dataset_dict, dist_result,
          driver_args, driver,
          early_stopping, stop_control, stop_log,
          vram_monitor, vram_log>>

rerunVars == <<entropy, split_history, analyze_history>>

splitVars == <<split_args, split_result>>

analyzeVars == <<analyze_args, analyze_locals, analyze_result>>

flattenVars == <<flatten_args, flatten_result>>

loraVars == <<lora_args, lora_result>>

distVars == <<dist_args, dataset_dict, dist_result>>

driverVars == <<driver_args, driver>>

stopVars == <<early_stopping, stop_control, stop_log>>

vramVars == <<vram_monitor, vram_log>>

----------------------------------------------------------------------------
(* Bounds of the model *)

\* largest dataset handed to split_dataset
MaxSamples == 10

\* number of times the same call is run again
MaxReruns == 1

\* longest conversation handed to _format_messages_to_text on its own
MaxMessages == 2

\* number of evaluations of one training run
MaxEvaluations == 4

\* number of training steps of one run that VRAMMonitorCallback sees
MaxSteps == 5

----------------------------------------------------------------------------
(* Small helpers *)

Min(a, b) == IF a <= b THEN a ELSE b

Max(a, b) == IF a >= b THEN a ELSE b

Abs(a) == IF a < 0 THEN 0 - a ELSE a

Range(s) == {s[i] : i \in 1..Len(s)}

\* math.ceil(num / den) for num >= 0, den > 0, in exact arithmetic
CeilDiv(num, den) == (num + den - 1) \div den

NoError == [type |-> "", text |-> "", values |-> <<>>]

----------------------------------------------------------------------------
(* split_dataset *)

\* 1.0 in ratio units (one unit = 1e-7)
RatioOne == 10000000

\* the tolerance 1e-6 of the ratio check, in ratio units
RatioTolerance == 10

\* ratio values the model draws the three ratios from:
\* 0, 0.05, 0.0999995, 0.1, 0.100001, 0.2, 0.7, 0.8, 1.0
Ratios == {0, 500000, 999995, 1000000, 1000010, 2000000, 7000000, 8000000, RatioOne}

Seeds == {1, 42}

\* Ratio triples of the grid whose exact sum differs from 1.0 by exactly 1e-6
\* and for which the double-precision expression
\*   abs(train_ratio + val_ratio + test_ratio - 1.0) < 1e-6
\* is nevertheless True in CPython (it evaluates to 9.999999999177334e-07).
\* Off this boundary the double result agrees with exact arithmetic on the grid.
DoubleSumPasses ==
    { <<999995, 999995, 8000000>>, <<999995, 8000000, 999995>>,
      <<8000000, 999995, 999995>>,
      <<1000010, 2000000, 7000000>>, <<1000010, 7000000, 2000000>>,
      <<2000000, 1000010, 7000000>>, <<2000000, 7000000, 1000010>>,
      <<7000000, 1000010, 2000000>>, <<7000000, 2000000, 1000010>> }

\* the ratio check without abs(): a sum below 1.0 passes
RatiosSumToOneNoAbs(train_ratio, val_ratio, test_ratio) ==
    train_ratio + val_ratio + test_ratio - RatioOne < RatioTolerance

\* the condition of the assert statement
RatiosSumToOne(train_ratio, val_ratio, test_ratio) ==
    LET dev == Abs(train_ratio + val_ratio + test_ratio - RatioOne)
    IN  \/ dev < RatioTolerance
        \/ dev = RatioTolerance /\ <<train_ratio, val_ratio, test_ratio>> \in DoubleSumPasses

\* (train_ratio, val_ratio, n) of the grid, n <= 40, for which the double
\* ceil(val_ratio / (train_ratio + val_ratio) * n) is one more than the exact
\* ceiling, because the double quotient lies just above the exact quotient
\* (0.7 + 0.1 = 0.7999999999999999 in doubles).  ceil(test_ratio * n) is exact
\* for every ratio of the grid and n <= 40.
DoubleCeilDrift ==
    { <<7000000, 1000000, 8>>, <<7000000, 1000000, 16>>, <<7000000, 1000000, 24>>,
      <<7000000, 1000000, 32>>, <<7000000, 1000000, 40>>,
      <<7000000, 2000000, 9>>, <<7000000, 2000000, 18>>, <<7000000, 2000000, 27>>,
      <<7000000, 2000000, 36>>,
      <<RatioOne, 2000000, 18>>, <<RatioOne, 2000000, 30>>, <<RatioOne, 2000000, 36>> }

\* one step of the pseudo-random generator that drives the shuffle
RngNext(x) == (x * 75 + 74) % 65537

Swap(s, i, j) == [s EXCEPT ![i] = s[j], ![j] = s[i]]

RECURSIVE FisherYates(_, _, _)
FisherYates(s, i, x) ==
    IF i <= 1 THEN s
    ELSE FisherYates(Swap(s, i, 1 + (RngNext(x) % i)), i - 1, RngNext(x))

\* the shuffle of a generator that was not given the seed: it starts from the
\* process-wide random state
PermutationUnseeded(seed, n) == FisherYates([i \in 1..n |-> i], n, entropy)

\* generator.permutation(n) of a generator seeded with seed: a permutation of
\* 1..n that is a function of (seed, n) only
Permutation(seed, n) == FisherYates([i \in 1..n |-> i], n, seed)

\* Dataset.train_test_split(test_size = num/den, seed = seed) on the rows
\* `indices`; drift is the amount by which the double ceil exceeds the exact one.
\* test = the first n_test rows of the shuffle, train = the next n_train.
TrainTestSplit(indices, num, den, seed, drift) ==
    LET n_samples == Len(indices)
        n_test    == CeilDiv(num * n_samples, den) + drift
        n_train   == n_samples - n_test
        perm      == Permutation(seed, n_samples)
    IN  IF num <= 0 \/ num >= den
        THEN [ok |-> FALSE, train |-> <<>>, test |-> <<>>,
              error |-> [type |-> "ValueError", text |-> "test_size should be a float in the (0, 1) range", values |-> <<>>]]
        ELSE IF n_train <= 0
        THEN [ok |-> FALSE, train |-> <<>>, test |-> <<>>,
              error |-> [type |-> "ValueError", text |-> "the resulting train set will be empty", values |-> <<>>]]
        ELSE [ok |-> TRUE,
              test  |-> [i \in 1..n_test |-> indices[perm[i]]],
              train |-> [i \in 1..n_train |-> indices[perm[n_test + i]]],
              error |-> NoError]

NoSplits == [train |-> <<>>, validation |-> <<>>, test |-> <<>>]

SplitRaised(error) == [status |-> "raised", value |-> NoSplits, error |-> error]

\* split_dataset whose second cut is taken from the whole dataset instead of
\* from train_val_dataset
SplitOutcomeSecondCutOfWhole(total_samples, train_ratio, val_ratio, test_ratio, seed) ==
    LET dataset == [i \in 1..total_samples |-> i]
        first   == TrainTestSplit(dataset, test_ratio, RatioOne, seed, 0)
        second  == TrainTestSplit(dataset, val_ratio, train_ratio + val_ratio, seed, 0)
    IN  IF ~RatiosSumToOne(train_ratio, val_ratio, test_ratio)
        THEN SplitRaised([type |-> "AssertionError", text |-> "Ratios must sum to 1.0", values |-> <<>>])
        ELSE IF ~first.ok THEN SplitRaised(first.error)
        ELSE IF train_ratio + val_ratio = 0
        THEN SplitRaised([type |-> "ZeroDivisionError", text |-> "float division by zero", values |-> <<>>])
        ELSE IF ~second.ok THEN SplitRaised(second.error)
        ELSE [status |-> "returned",
              value  |-> [train |-> second.train, validation |-> second.test, test |-> first.test],
              error  |-> NoError]

\* split_dataset whose second cut uses train_ratio / train_val_ratio as test_size
SplitOutcomeSwappedSecondCut(total_samples, train_ratio, val_ratio, test_ratio, seed) ==
    LET dataset == [i \in 1..total_samples |-> i]
        first   == TrainTestSplit(dataset, test_ratio, RatioOne, seed, 0)
        second  == TrainTestSplit(first.train, train_ratio, train_ratio + val_ratio, seed, 0)
    IN  IF ~RatiosSumToOne(train_ratio, val_ratio, test_ratio)
        THEN SplitRaised([type |-> "AssertionError", text |-> "Ratios must sum to 1.0", values |-> <<>>])
        ELSE IF ~first.ok THEN SplitRaised(first.error)
        ELSE IF train_ratio + val_ratio = 0
        THEN SplitRaised([type |-> "ZeroDivisionError", text |-> "float division by zero", values |-> <<>>])
        ELSE IF ~second.ok THEN SplitRaised(second.error)
        ELSE [status |-> "returned",
              value  |-> [train |-> second.train, validation |-> second.test, test |-> first.test],
              error  |-> NoError]

\* the outcome of split_dataset(dataset, train_ratio, val_ratio, test_ratio, seed)
\* for a dataset of total_samples rows, identified by their indices 1..total_samples
SplitOutcome(total_samples, train_ratio, val_ratio, test_ratio, seed) ==
    LET dataset         == [i \in 1..total_samples |-> i]
        train_val_ratio == train_ratio + val_ratio
        first           == TrainTestSplit(dataset, test_ratio, RatioOne, seed, 0)
        drift           == IF <<train_ratio, val_ratio, Len(first.train)>> \in DoubleCeilDrift
                           THEN 1 ELSE 0
        second          == TrainTestSplit(first.train, val_ratio, train_val_ratio, seed, drift)
    IN  IF ~RatiosSumToOne(train_ratio, val_ratio, test_ratio)
        THEN SplitRaised([type |-> "AssertionError", text |-> "Ratios must sum to 1.0", values |-> <<>>])
        ELSE IF ~first.ok THEN SplitRaised(first.error)
        ELSE IF train_val_ratio = 0
        THEN SplitRaised([type |-> "ZeroDivisionError", text |-> "float division by zero", values |-> <<>>])
        ELSE IF ~second.ok THEN SplitRaised(second.error)
        ELSE [status |-> "returned",
              value  |-> [train |-> second.train, validation |-> second.test, test |-> first.test],
              error  |-> NoError]

\* the call: runs once on the arguments the state holds
split_dataset ==
    /\ split_result.status = "none"
    /\ split_result' = SplitOutcome(split_args.total_samples, split_args.train_ratio,
                                    split_args.val_ratio, split_args.test_ratio, split_args.seed)
    /\ UNCHANGED <<split_args, analyzeVars, rerunVars, flattenVars, loraVars, distVars, driverVars, stopVars, vramVars>>

\* the driver is started again with the same dataset, ratios and seed: the
\* earlier outcome is kept for comparison and the process-wide random state
\* is another one
rerun_split ==
    /\ split_result.status # "none"
    /\ Len(split_history) < MaxReruns
    /\ split_history' = Append(split_history, split_result)
    /\ split_result' = [status |-> "none", value |-> NoSplits, error |-> NoError]
    /\ entropy' = RngNext(entropy)
    /\ UNCHANGED <<split_args, analyzeVars, analyze_history, flattenVars, loraVars, distVars, driverVars, stopVars, vramVars>>

----------------------------------------------------------------------------
(* _format_messages_to_text *)

\* msg.get(key, default) of a Python dict
Get(msg, key, default) == IF key \in DOMAIN msg THEN msg[key] ELSE default

\* f"{role}: {content}" for one message; a text is the sequence of its pieces
FormatMessage(msg) == <<Get(msg, "role", "user"), ": ", Get(msg, "content", "")>>

RECURSIVE JoinLinesTrailing(_)
\* every line is followed by a newline, the last one too
JoinLinesTrailing(lines) ==
    IF lines = <<>> THEN <<>>
    ELSE lines[1] \o <<"\n">> \o JoinLinesTrailing(Tail(lines))

RECURSIVE JoinLines(_)
\* "\n".join(lines)
JoinLines(lines) ==
    IF lines = <<>> THEN <<>>
    ELSE IF Len(lines) = 1 THEN lines[1]
    ELSE lines[1] \o <<"\n">> \o JoinLines(Tail(lines))

format_messages_to_text(messages) ==
    IF messages = <<>> THEN <<>>
    ELSE JoinLines([i \in 1..Len(messages) |-> FormatMessage(messages[i])])

\* the argument of a call: given = FALSE is the call with None
NoFlattenArgs == [given |-> FALSE, messages |-> <<>>]

NoFlattenResult == [status |-> "none", value |-> <<>>]

\* one call of _format_messages_to_text; "not messages" holds for None and for []
call_format_messages_to_text ==
    /\ flatten_result.status = "none"
    /\ flatten_result' =
          [status |-> "returned",
           value  |-> IF ~flatten_args.given THEN <<>>
                      ELSE format_messages_to_text(flatten_args.messages)]
    /\ UNCHANGED <<flatten_args, splitVars, analyzeVars, rerunVars, loraVars, distVars, driverVars, stopVars, vramVars>>

----------------------------------------------------------------------------
(* get_dynamic_lora_config; a model name is the sequence of its characters *)

\* str.lower() on one character
LowerChar(c) ==
    CASE
         c = "A" -> "a"
      [] c = "B" -> "b"
      [] c = "C" -> "c"
      [] c = "D" -> "d"
      [] c = "E" -> "e"
      [] c = "F" -> "f"
      [] c = "G" -> "g"
      [] c = "H" -> "h"
      [] c = "I" -> "i"
      [] c = "J" -> "j"
      [] c = "K" -> "k"
      [] c = "L" -> "l"
      [] c = "M" -> "m"
      [] c = "N" -> "n"
      [] c = "O" -> "o"
      [] c = "P" -> "p"
      [] c = "Q" -> "q"
      [] c = "R" -> "r"
      [] c = "S" -> "s"
      [] c = "T" -> "t"
      [] c = "U" -> "u"
      [] c = "V" -> "v"
      [] c = "W" -> "w"
      [] c = "X" -> "x"
      [] c = "Y" -> "y"
      [] c = "Z" -> "z"
      [] OTHER -> c

\* model_name.lower()
Lower(name) == [i \in 1..Len(name) |-> LowerChar(name[i])]

\* sub in text
Contains(text, sub) ==
    \E i \in 1..(Len(text) - Len(sub) + 1) : SubSeq(text, i, i + Len(sub) - 1) = sub

target_modules == <<"q_proj", "k_proj", "v_proj", "o_proj", "gate_proj", "up_proj", "down_proj">>

\* the tiers tested from the largest model size down
RankAlphaLargestFirst(model_lower) ==
    IF Contains(model_lower, <<"6", "b">>) \/ Contains(model_lower, <<"7", "b">>)
    THEN <<32, 64>>
    ELSE IF \/ Contains(model_lower, <<"1", ".", "5", "b">>)
            \/ Contains(model_lower, <<"1", "b">>)
            \/ Contains(model_lower, <<"1", ".", "7", "b">>)
    THEN <<16, 32>>
    ELSE IF \/ Contains(model_lower, <<"0", ".", "5", "b">>)
            \/ Contains(model_lower, <<"0", ".", "6", "b">>)
            \/ Contains(model_lower, <<"2", "7", "0", "m">>)
    THEN <<8, 16>>
    ELSE <<16, 32>>

\* r, alpha of the if / elif chain
RankAlpha(model_lower) ==
    IF \/ Contains(model_lower, <<"0", ".", "5", "b">>)
       \/ Contains(model_lower, <<"0", ".", "6", "b">>)
       \/ Contains(model_lower, <<"2", "7", "0", "m">>)
    THEN <<8, 16>>
    ELSE IF \/ Contains(model_lower, <<"1", ".", "5", "b">>)
            \/ Contains(model_lower, <<"1", "b">>)
            \/ Contains(model_lower, <<"1", ".", "7", "b">>)
    THEN <<16, 32>>
    ELSE IF Contains(model_lower, <<"6", "b">>) \/ Contains(model_lower, <<"7", "b">>)
    THEN <<32, 64>>
    ELSE <<16, 32>>

\* rank-stabilized scaling switched on for the names of the largest tier only
UseRsloraByTier(model_lower) == RankAlpha(model_lower) = <<32, 64>>

\* use_rslora
UseRslora(model_lower) ==
    Contains(model_lower, <<"6", "b">>) \/ Contains(model_lower, <<"7", "b">>)

\* the dictionary the function returns; max_seq_length is not read
LoraConfig(model_name, max_seq_length) ==
    LET model_lower == Lower(model_name)
    IN  [r |-> RankAlpha(model_lower)[1],
         lora_alpha |-> RankAlpha(model_lower)[2],
         target_modules |-> target_modules,
         lora_dropout |-> 0,
         bias |-> "none",
         task_type |-> "CAUSAL_LM",
         use_rslora |-> UseRslora(model_lower),
         use_gradient_checkpointing |-> "unsloth"]

NoLoraArgs == [model_name |-> <<>>, max_seq_length |-> 0]

NoLoraConfig ==
    [r |-> 0, lora_alpha |-> 0, target_modules |-> <<>>, lora_dropout |-> 0, bias |-> "",
     task_type |-> "", use_rslora |-> FALSE, use_gradient_checkpointing |-> ""]

NoLoraResult == [status |-> "none", value |-> NoLoraConfig]

\* one call of get_dynamic_lora_config
get_dynamic_lora_config ==
    /\ lora_result.status = "none"
    /\ lora_result' = [status |-> "returned",
                       value  |-> LoraConfig(lora_args.model_name, lora_args.max_seq_length)]
    /\ UNCHANGED <<lora_args, splitVars, analyzeVars, rerunVars, flattenVars, distVars, driverVars, stopVars, vramVars>>

----------------------------------------------------------------------------
(* The tokenizer collaborator *)

Tokenizers == {"qwen", "gemma"}

\* number of tokens of the message contents the model uses, per tokenizer
ContentTokens(tokenizer, piece) ==
    CASE piece = ""        -> 0
      [] piece = "hi"      -> 1
      [] piece = "doc_s"   -> IF tokenizer = "qwen" THEN 98 ELSE 120
      [] piece = "doc_m"   -> IF tokenizer = "qwen" THEN 766 ELSE 767
      [] piece = "doc_l"   -> IF tokenizer = "qwen" THEN 4894 ELSE 3600
      [] piece = "doc_xl"  -> IF tokenizer = "qwen" THEN 9742 ELSE 7934
      [] piece = "doc_xxl" -> IF tokenizer = "qwen" THEN 39998 ELSE 33000
      [] OTHER             -> 1

RECURSIVE TokenCount(_, _)
\* len(tokenizer.encode(text, add_special_tokens=False)): role names, ": " and
\* "\n" are one token each, contents as ContentTokens says
TokenCount(tokenizer, text) ==
    IF text = <<>> THEN 0
    ELSE ContentTokens(tokenizer, Head(text)) + TokenCount(tokenizer, Tail(text))

----------------------------------------------------------------------------
(* analyze_dataset_and_configure *)

\* the threshold 16.0 of vram_gb, in tenths of a GB
VramThreshold == 160

\* vram_gb values the model draws from, in tenths of a GB: 8.0, 15.9, 16.0, 24.0
VramValues == {80, 159, VramThreshold, 240}

MaxLengths == {256, 512, 1024, 1025, 2048, 2049, 4096, 4097, 8192, 8193, 10000, 32768}

\* the lengths left in row order
Unsorted(lengths) == lengths

\* sorted(dataset["length"])
Sorted(lengths) == SortSeq(lengths, LAMBDA a, b : a < b)

\* the percentile index rounded to nearest instead of floored
P95IndexRounded(n) == (n * 95 + 50) \div 100

\* the percentile index rounded up
P95IndexCeil(n) == (n * 95 + 99) \div 100

\* int(len(lengths) * 0.95); the double product floors to floor(95 n / 100)
\* for every n below 2,000,000
P95Index(n) == (n * 95) \div 100

\* the sequence length without the floor of 512
DetermineMaxSeqLengthNoFloor(max_length, p95_length) ==
    Min(max_length, p95_length + 256)

\* lines 59-60: min with max_length, then the floor of 512
DetermineMaxSeqLength(max_length, p95_length) ==
    Max(Min(max_length, p95_length + 256), 512)

\* the tier table with strict comparisons: a boundary value falls in the upper bucket
BatchTierStrict(vram_gb, determined_max_seq_length) ==
    IF vram_gb >= VramThreshold
    THEN IF determined_max_seq_length < 1024
         THEN [per_device_train_batch_size |-> 2, gradient_accumulation_steps |-> 8,
               max_seq_length |-> determined_max_seq_length]
         ELSE IF determined_max_seq_length < 2048
         THEN [per_device_train_batch_size |-> 1, gradient_accumulation_steps |-> 16,
               max_seq_length |-> determined_max_seq_length]
         ELSE IF determined_max_seq_length < 4096
         THEN [per_device_train_batch_size |-> 1, gradient_accumulation_steps |-> 32,
               max_seq_length |-> determined_max_seq_length]
         ELSE [per_device_train_batch_size |-> 1, gradient_accumulation_steps |-> 64,
               max_seq_length |-> Min(determined_max_seq_length, 8192)]
    ELSE [per_device_train_batch_size |-> 1, gradient_accumulation_steps |-> 16,
          max_seq_length |-> determined_max_seq_length]

\* the tier table without the cap of 8192 in the last bucket
BatchTierNoCap(vram_gb, determined_max_seq_length) ==
    IF vram_gb >= VramThreshold
    THEN IF determined_max_seq_length <= 1024
         THEN [per_device_train_batch_size |-> 2, gradient_accumulation_steps |-> 8,
               max_seq_length |-> determined_max_seq_length]
         ELSE IF determined_max_seq_length <= 2048
         THEN [per_device_train_batch_size |-> 1, gradient_accumulation_steps |-> 16,
               max_seq_length |-> determined_max_seq_length]
         ELSE IF determined_max_seq_length <= 4096
         THEN [per_device_train_batch_size |-> 1, gradient_accumulation_steps |-> 32,
               max_seq_length |-> determined_max_seq_length]
         ELSE [per_device_train_batch_size |-> 1, gradient_accumulation_steps |-> 64,
               max_seq_length |-> determined_max_seq_length]
    ELSE [per_device_train_batch_size |-> 1, gradient_accumulation_steps |-> 16,
          max_seq_length |-> determined_max_seq_length]

\* the tier table applied whatever the memory budget
BatchTierAnyVram(vram_gb, determined_max_seq_length) ==
    IF determined_max_seq_length <= 1024
    THEN [per_device_train_batch_size |-> 2, gradient_accumulation_steps |-> 8,
          max_seq_length |-> determined_max_seq_length]
    ELSE IF determined_max_seq_length <= 2048
    THEN [per_device_train_batch_size |-> 1, gradient_accumulation_steps |-> 16,
          max_seq_length |-> determined_max_seq_length]
    ELSE IF determined_max_seq_length <= 4096
    THEN [per_device_train_batch_size |-> 1, gradient_accumulation_steps |-> 32,
          max_seq_length |-> determined_max_seq_length]
    ELSE [per_device_train_batch_size |-> 1, gradient_accumulation_steps |-> 64,
          max_seq_length |-> Min(determined_max_seq_length, 8192)]

\* lines 63-79: the batch settings and the final max_seq_length
\* the cap of 8192 applied in the branch below the threshold too
BatchTierCapEverywhere(vram_gb, determined_max_seq_length) ==
    IF vram_gb >= VramThreshold
    THEN IF determined_max_seq_length <= 1024
         THEN [per_device_train_batch_size |-> 2, gradient_accumulation_steps |-> 8,
               max_seq_length |-> determined_max_seq_length]
         ELSE IF determined_max_seq_length <= 2048
         THEN [per_device_train_batch_size |-> 1, gradient_accumulation_steps |-> 16,
               max_seq_length |-> determined_max_seq_length]
         ELSE IF determined_max_seq_length <= 4096
         THEN [per_device_train_batch_size |-> 1, gradient_accumulation_steps |-> 32,
               max_seq_length |-> determined_max_seq_length]
         ELSE [per_device_train_batch_size |-> 1, gradient_accumulation_steps |-> 64,
               max_seq_length |-> Min(determined_max_seq_length, 8192)]
    ELSE [per_device_train_batch_size |-> 1, gradient_accumulation_steps |-> 16,
          max_seq_length |-> Min(determined_max_seq_length, 8192)]

BatchTier(vram_gb, determined_max_seq_length) ==
    IF vram_gb >= VramThreshold
    THEN IF determined_max_seq_length <= 1024
         THEN [per_device_train_batch_size |-> 2, gradient_accumulation_steps |-> 8,
               max_seq_length |-> determined_max_seq_length]
         ELSE IF determined_max_seq_length <= 2048
         THEN [per_device_train_batch_size |-> 1, gradient_accumulation_steps |-> 16,
               max_seq_length |-> determined_max_seq_length]
         ELSE IF determined_max_seq_length <= 4096
         THEN [per_device_train_batch_size |-> 1, gradient_accumulation_steps |-> 32,
               max_seq_length |-> determined_max_seq_length]
         ELSE [per_device_train_batch_size |-> 1, gradient_accumulation_steps |-> 64,
               max_seq_length |-> Min(determined_max_seq_length, 8192)]
    ELSE [per_device_train_batch_size |-> 1, gradient_accumulation_steps |-> 16,
          max_seq_length |-> determined_max_seq_length]

\* the configuration with the effective batch size fixed at 16
DynamicConfigFixedEffective(tier) ==
    [max_seq_length              |-> tier.max_seq_length,
     per_device_train_batch_size |-> tier.per_device_train_batch_size,
     gradient_accumulation_steps |-> tier.gradient_accumulation_steps,
     effective_batch_size        |-> 16,
     use_gradient_checkpointing  |-> TRUE]

\* lines 81-89
DynamicConfig(tier) ==
    [max_seq_length              |-> tier.max_seq_length,
     per_device_train_batch_size |-> tier.per_device_train_batch_size,
     gradient_accumulation_steps |-> tier.gradient_accumulation_steps,
     effective_batch_size        |-> tier.per_device_train_batch_size * tier.gradient_accumulation_steps,
     use_gradient_checkpointing  |-> TRUE]

NoConfig ==
    [max_seq_length |-> 0, per_device_train_batch_size |-> 0, gradient_accumulation_steps |-> 0,
     effective_batch_size |-> 0, use_gradient_checkpointing |-> FALSE]

NoDataset == [column_names |-> {}, rows |-> <<>>]

\* steps: the dataset transformations the call has run, in order
NoLocals == [lengths |-> <<>>, p95_length |-> 0, determined_max_seq_length |-> 0, steps |-> <<>>]

NoAnalyzeResult == [status |-> "none", dataset |-> NoDataset, dynamic_config |-> NoConfig, error |-> NoError]

AnalyzeRaised(error) ==
    [status |-> "raised", dataset |-> NoDataset, dynamic_config |-> NoConfig, error |-> error]

\* the text column is only created when the dataset has none
MapTextKeepExisting(dataset) ==
    IF dataset.rows = <<>> \/ "text" \in dataset.column_names THEN dataset ELSE
    [column_names |-> dataset.column_names \cup {"text"},
     rows |-> [i \in 1..Len(dataset.rows) |->
                 [dataset.rows[i] EXCEPT !.text = format_messages_to_text(dataset.rows[i].messages)]]]

\* the flattened messages are appended to the text the row already has
MapTextAppend(dataset) ==
    IF dataset.rows = <<>> THEN dataset ELSE
    [column_names |-> dataset.column_names \cup {"text"},
     rows |-> [i \in 1..Len(dataset.rows) |->
                 [dataset.rows[i] EXCEPT !.text =
                     IF "text" \in dataset.column_names
                     THEN @ \o format_messages_to_text(dataset.rows[i].messages)
                     ELSE format_messages_to_text(dataset.rows[i].messages)]]]

\* num_proc = os.cpu_count() // 2 or 1 only sets the number of worker
\* processes.  The name os is taken to be bound in dataset_analyzer.py, as
\* dataset_splitter.py binds it (line 2): dataset_analyzer.py has no import of
\* os, and no estimate_vram_usage, which src/data/__init__.py imports from it;
\* with os unbound lines 31 and 46 would raise NameError on every call that
\* gets past line 24.
\* dataset.map(lambda x: {"text": _format_messages_to_text(x.get("messages", []))});
\* Dataset.map hands an empty dataset back as it is, without the new column
MapText(dataset) ==
    IF dataset.rows = <<>> THEN dataset ELSE
    [column_names |-> dataset.column_names \cup {"text"},
     rows |-> [i \in 1..Len(dataset.rows) |->
                 [dataset.rows[i] EXCEPT !.text = format_messages_to_text(dataset.rows[i].messages)]]]

\* dataset.map(lambda x: {"length": len(tokenizer.encode(x["text"], add_special_tokens=False))})
MapLength(dataset, tokenizer) ==
    IF dataset.rows = <<>> THEN dataset ELSE
    [column_names |-> dataset.column_names \cup {"length"},
     rows |-> [i \in 1..Len(dataset.rows) |->
                 [dataset.rows[i] EXCEPT !.length = TokenCount(tokenizer, dataset.rows[i].text)]]]

\* the call falling back on an existing text column when messages is missing
AnalyzeOutcomeTextFallback(dataset, tokenizer, max_length, vram_gb) ==
    LET with_text   == IF "messages" \in dataset.column_names THEN MapText(dataset) ELSE dataset
        with_length == MapLength(with_text, tokenizer)
        lengths     == Sorted([i \in 1..Len(with_length.rows) |-> with_length.rows[i].length])
        index       == P95Index(Len(lengths))
    IN  IF "text" \notin with_text.column_names
        THEN [locals |-> NoLocals,
              result |-> AnalyzeRaised([type |-> "ValueError",
                                        text |-> "Dataset does not contain a 'messages' column.",
                                        values |-> <<>>])]
        ELSE IF "length" \notin with_length.column_names
        THEN [locals |-> [NoLocals EXCEPT !.steps = <<"map_text", "map_length">>],
              result |-> AnalyzeRaised([type |-> "KeyError", text |-> "length",
                                        values |-> <<>>])]
        ELSE IF index + 1 > Len(lengths)
        THEN [locals |-> [NoLocals EXCEPT !.lengths = lengths,
                                          !.steps = <<"map_text", "map_length", "sorted">>],
              result |-> AnalyzeRaised([type |-> "IndexError", text |-> "list index out of range",
                                        values |-> <<>>])]
        ELSE LET p95_length == lengths[index + 1]
                 determined == DetermineMaxSeqLength(max_length, p95_length)
             IN  [locals |-> [lengths |-> lengths, p95_length |-> p95_length,
                              determined_max_seq_length |-> determined,
                              steps |-> <<"map_text", "map_length", "sorted">>],
                  result |-> [status |-> "returned", dataset |-> with_length,
                              dynamic_config |-> DynamicConfig(BatchTier(vram_gb, determined)),
                              error |-> NoError]]

\* the whole call: the locals it leaves and its outcome
AnalyzeOutcome(dataset, tokenizer, max_length, vram_gb) ==
    LET with_text   == MapText(dataset)
        with_length == MapLength(with_text, tokenizer)
        lengths     == Sorted([i \in 1..Len(with_length.rows) |-> with_length.rows[i].length])
        index       == P95Index(Len(lengths))
    IN  IF "messages" \notin dataset.column_names
        THEN [locals |-> NoLocals,
              result |-> AnalyzeRaised([type |-> "ValueError",
                                        text |-> "Dataset does not contain a 'messages' column.",
                                        values |-> <<>>])]
        ELSE IF "text" \notin with_text.column_names
        THEN [locals |-> [NoLocals EXCEPT !.steps = <<"map_text">>],
              result |-> AnalyzeRaised([type |-> "ValueError",
                                        text |-> "FATAL: 'text' column was not created",
                                        values |-> <<>>])]
        ELSE IF "length" \notin with_length.column_names
        THEN [locals |-> [NoLocals EXCEPT !.steps = <<"map_text", "map_length">>],
              result |-> AnalyzeRaised([type |-> "KeyError", text |-> "length",
                                        values |-> <<>>])]
        ELSE IF index + 1 > Len(lengths)
        THEN [locals |-> [NoLocals EXCEPT !.lengths = lengths,
                                          !.steps = <<"map_text", "map_length", "sorted">>],
              result |-> AnalyzeRaised([type |-> "IndexError", text |-> "list index out of range",
                                        values |-> <<>>])]
        ELSE LET p95_length == lengths[index + 1]
                 determined == DetermineMaxSeqLength(max_length, p95_length)
             IN  [locals |-> [lengths |-> lengths, p95_length |-> p95_length,
                              determined_max_seq_length |-> determined,
                              steps |-> <<"map_text", "map_length", "sorted">>],
                  result |-> [status |-> "returned", dataset |-> with_length,
                              dynamic_config |-> DynamicConfig(BatchTier(vram_gb, determined)),
                              error |-> NoError]]

\* the call: runs once on the arguments the state holds
analyze_dataset_and_configure ==
    /\ analyze_result.status = "none"
    /\ LET out == AnalyzeOutcome(analyze_args.dataset, analyze_args.tokenizer,
                                 analyze_args.max_length, analyze_args.vram_gb)
       IN  /\ analyze_locals' = out.locals
           /\ analyze_result' = out.result
    /\ UNCHANGED <<analyze_args, splitVars, rerunVars, flattenVars, loraVars, distVars, driverVars, stopVars, vramVars>>

\* the analyzer is called again with the same tokenizer, max_length and vram_gb,
\* on the same dataset or on the dataset the earlier call returned
rerun_analyze ==
    /\ analyze_result.status = "returned"
    /\ Len(analyze_history) < MaxReruns
    /\ analyze_history' = Append(analyze_history, analyze_result)
    /\ \E d \in {analyze_args.dataset, analyze_result.dataset} :
           analyze_args' = [analyze_args EXCEPT !.dataset = d]
    /\ analyze_locals' = NoLocals
    /\ analyze_result' = [status |-> "none", dataset |-> NoDataset, dynamic_config |-> NoConfig,
                          error |-> NoError]
    /\ entropy' = RngNext(entropy)
    /\ UNCHANGED <<splitVars, split_history, flattenVars, loraVars, distVars, driverVars, stopVars, vramVars>>

\* the analyzer is called again with the same tokenizer, max_length and vram_gb
\* on the same records in another order
rerun_shuffled ==
    /\ analyze_result.status = "returned"
    /\ Len(analyze_history) < MaxReruns
    /\ analyze_history' = Append(analyze_history, analyze_result)
    /\ \E seed \in Seeds :
           LET rows == analyze_args.dataset.rows
               perm == Permutation(seed, Len(rows))
           IN  analyze_args' = [analyze_args EXCEPT
                                   !.dataset.rows = [i \in 1..Len(rows) |-> rows[perm[i]]]]
    /\ analyze_locals' = NoLocals
    /\ analyze_result' = [status |-> "none", dataset |-> NoDataset, dynamic_config |-> NoConfig,
                          error |-> NoError]
    /\ entropy' = RngNext(entropy)
    /\ UNCHANGED <<splitVars, split_history, flattenVars, loraVars, distVars, driverVars, stopVars, vramVars>>

----------------------------------------------------------------------------
(* analyze_split_distribution *)

\* the keys of the mapping split_dataset returns, in the order items() gives them
SplitOrder == <<"train", "validation", "test">>

RECURSIVE SeqSum(_)
\* sum(lengths)
SeqSum(q) == IF q = <<>> THEN 0 ELSE Head(q) + SeqSum(Tail(q))

\* max(lengths) and min(lengths) of a non-empty list
SeqMax(q) == CHOOSE x \in Range(q) : \A y \in Range(q) : x >= y

SeqMin(q) == CHOOSE x \in Range(q) : \A y \in Range(q) : x <= y

\* what the function prints for one split; avg_len is total / count
NoEntry ==
    [split_name |-> "", outcome |-> "", total |-> 0, count |-> 0, max_len |-> 0, min_len |-> 0,
     samples |-> 0]

\* the statistics line; sum(lengths) / len(lengths) raises for an empty list
StatsEntry(split_name, lengths, samples) ==
    IF Len(lengths) = 0
    THEN [NoEntry EXCEPT !.split_name = split_name, !.outcome = "ZeroDivisionError"]
    ELSE [split_name |-> split_name, outcome |-> "stats", total |-> SeqSum(lengths),
          count |-> Len(lengths), max_len |-> SeqMax(lengths), min_len |-> SeqMin(lengths),
          samples |-> samples]

\* the body of the loop where the dataset with the text column takes the place
\* of the split in the mapping
AnalyzeOneSplitKeepingText(split_name, dataset, tokenizer) ==
    LET temp_dataset == MapText(dataset)
        source  == IF "messages" \in dataset.column_names THEN temp_dataset ELSE dataset
        lengths == [i \in 1..Len(source.rows) |-> TokenCount(tokenizer, source.rows[i].text)]
        line(outcome) == [NoEntry EXCEPT !.split_name = split_name, !.outcome = outcome]
    IN  [entry |->
            IF "messages" \in dataset.column_names /\ "text" \notin temp_dataset.column_names
            THEN line("skipped_no_text")
            ELSE IF "messages" \notin dataset.column_names /\ "text" \notin dataset.column_names
            THEN line("skipped_missing")
            ELSE IF lengths = <<>>
            THEN line("zero_samples")
            ELSE StatsEntry(split_name, lengths, Len(dataset.rows)),
         dataset |-> source]

\* the body of the loop for one split: the line it prints and the dataset the
\* mapping holds under split_name afterwards
AnalyzeOneSplit(split_name, dataset, tokenizer) ==
    LET temp_dataset == MapText(dataset)
        source  == IF "messages" \in dataset.column_names THEN temp_dataset ELSE dataset
        lengths == [i \in 1..Len(source.rows) |-> TokenCount(tokenizer, source.rows[i].text)]
        line(outcome) == [NoEntry EXCEPT !.split_name = split_name, !.outcome = outcome]
    IN  [entry |->
            IF "messages" \in dataset.column_names /\ "text" \notin temp_dataset.column_names
            THEN line("skipped_no_text")
            ELSE IF "messages" \notin dataset.column_names /\ "text" \notin dataset.column_names
            THEN line("skipped_missing")
            ELSE IF lengths = <<>>
            THEN line("zero_samples")
            ELSE StatsEntry(split_name, lengths, Len(dataset.rows)),
         dataset |-> dataset]

RECURSIVE DistLoop(_, _, _, _)
\* for split_name, dataset in dataset_dict.items(): an exception ends the loop
DistLoop(names, dict, tokenizer, report) ==
    IF names = <<>>
    THEN [result |-> [status |-> "returned", report |-> report, error |-> NoError],
          dataset_dict |-> dict]
    ELSE LET one == AnalyzeOneSplit(Head(names), dict[Head(names)], tokenizer)
             after == [dict EXCEPT ![Head(names)] = one.dataset]
         IN  IF one.entry.outcome = "ZeroDivisionError"
             THEN [result |-> [status |-> "raised", report |-> report,
                               error |-> [type |-> "ZeroDivisionError",
                                          text |-> "division by zero", values |-> <<>>]],
                   dataset_dict |-> after]
             ELSE DistLoop(Tail(names), after, tokenizer, Append(report, one.entry))

NoDistArgs == [dataset_dict |-> [n \in Range(SplitOrder) |-> NoDataset], tokenizer |-> ""]

NoDistResult == [status |-> "none", report |-> <<>>, error |-> NoError]

\* one call of analyze_split_distribution on the caller's mapping
analyze_split_distribution ==
    /\ dist_result.status = "none"
    /\ LET outcome == DistLoop(SplitOrder, dataset_dict, dist_args.tokenizer, <<>>)
       IN  /\ dist_result' = outcome.result
           /\ dataset_dict' = outcome.dataset_dict
    /\ UNCHANGED <<dist_args, splitVars, analyzeVars, rerunVars, flattenVars, loraVars, driverVars, stopVars, vramVars>>

----------------------------------------------------------------------------
(* Datasets handed to the analyzer *)

Conversations ==
    { <<>>,
      <<[role |-> "user", content |-> "hi"]>>,
      <<[content |-> "doc_s"]>>,
      <<[role |-> "user", content |-> "doc_m"]>>,
      <<[role |-> "system", content |-> "doc_s"], [role |-> "user", content |-> "doc_l"],
        [role |-> "assistant"]>>,
      <<[role |-> "user", content |-> "doc_xl"]>>,
      <<[role |-> "user", content |-> "doc_xxl"]>> }

\* k copies of a row
Bulk(row, k) == [i \in 1..k |-> row]

\* (k1, k2): k1 rows of one conversation followed by k2 rows of another
Shapes == {<<0, 0>>, <<1, 0>>, <<1, 1>>, <<2, 1>>, <<1, 20>>, <<20, 1>>, <<94, 1>>}

\* a row as loaded: only the messages column is filled
FreshRow(messages) == [messages |-> messages, text |-> <<>>, length |-> 0]

\* a row that already carries a text and a length that do not come from its messages
StaleRow(messages) == [messages |-> messages, text |-> <<"user", ": ", "doc_m">>, length |-> 7]

InputDatasets ==
    { [column_names |-> {"messages"},
       rows |-> Bulk(FreshRow(c1), shape[1]) \o Bulk(FreshRow(c2), shape[2])]
        : c1 \in Conversations, c2 \in Conversations, shape \in Shapes }
    \cup
    { [column_names |-> columns,
       rows |-> Bulk(StaleRow(c1), shape[1]) \o Bulk(StaleRow(c2), shape[2])]
        : c1 \in Conversations, c2 \in Conversations, shape \in {<<0, 0>>, <<1, 1>>, <<20, 1>>},
          columns \in {{"text"}, {"messages", "text", "length"}} }
    \cup
    { [column_names |-> {"messages", "text"}, rows |-> <<>>] }

----------------------------------------------------------------------------
(* Specification of the partitioner *)

NoSplitArgs == [total_samples |-> 0, train_ratio |-> 0, val_ratio |-> 0, test_ratio |-> 0, seed |-> 0]

NoSplitResult == [status |-> "none", value |-> NoSplits, error |-> NoError]

NoAnalyzeArgs == [dataset |-> NoDataset, tokenizer |-> "", max_length |-> 0, vram_gb |-> 0]

\* no call has been run before, and the process-wide random state is some value
FirstRun ==
    /\ entropy = 2024
    /\ split_history = <<>>
    /\ analyze_history = <<>>

\* the analyzer is not called in the partitioner's specification
IdleFlatten ==
    /\ flatten_args = NoFlattenArgs
    /\ flatten_result = NoFlattenResult

IdleLora ==
    /\ lora_args = NoLoraArgs
    /\ lora_result = NoLoraResult

NoVramMonitor == [threshold_percent |-> 0, oom_warning_shown |-> FALSE]

IdleVram ==
    /\ vram_monitor = NoVramMonitor
    /\ vram_log = <<>>

NoEarlyStopping == [patience |-> 0, min_delta |-> 0, best_loss |-> 0, counter |-> 0]

NoControl == [should_training_stop |-> FALSE]

IdleStop ==
    /\ early_stopping = NoEarlyStopping
    /\ stop_control = NoControl
    /\ stop_log = <<>>

\* the objects of main() before it runs
NoTrainingArgs ==
    [per_device_train_batch_size |-> 0, gradient_accumulation_steps |-> 0,
     gradient_checkpointing |-> FALSE]

NoDriverArgs ==
    [script |-> "", dataset |-> NoDataset, batch_size_per_replica |-> 0, world_size |-> 0]

\* reads: the accesses to the partitions, in order, each with the statement
\* that made it and whether trainer.train() had returned
NoDriver ==
    [pc |-> "idle", dataset_dict |-> NoDistArgs.dataset_dict, dynamic_config |-> NoConfig,
     global_batch_size |-> 0, lora_config |-> NoLoraConfig, training_args |-> NoTrainingArgs,
     callback_config |-> NoConfig, reads |-> <<>>, training_complete |-> FALSE,
     error |-> NoError]

IdleDriver ==
    /\ driver_args = NoDriverArgs
    /\ driver = NoDriver

IdleDist ==
    /\ dist_args = NoDistArgs
    /\ dataset_dict = NoDistArgs.dataset_dict
    /\ dist_result = NoDistResult

IdleAnalyze ==
    /\ analyze_args = NoAnalyzeArgs
    /\ analyze_locals = NoLocals
    /\ analyze_result = NoAnalyzeResult

\* the partitioner is not called in the analyzer's specification
IdleSplit ==
    /\ split_args = NoSplitArgs
    /\ split_result = NoSplitResult

\* split_dataset is about to be called on any dataset size, ratio triple and seed
InitSplit ==
    /\ split_args \in [total_samples : 0..MaxSamples, train_ratio : Ratios,
                        val_ratio : Ratios, test_ratio : Ratios, seed : Seeds]
    /\ split_result = NoSplitResult
    /\ IdleAnalyze
    /\ IdleFlatten
    /\ IdleLora
    /\ IdleDist
    /\ IdleDriver
    /\ IdleStop
    /\ IdleVram
    /\ FirstRun

NextSplit == split_dataset

SpecSplit == InitSplit /\ [][NextSplit]_vars

\* the partitioner called, and called again on the same arguments
NextSplitRerun == split_dataset \/ rerun_split

SpecSplitRerun == InitSplit /\ [][NextSplitRerun]_vars

----------------------------------------------------------------------------
(* Specification of the analyzer *)

\* analyze_dataset_and_configure is about to be called on any dataset,
\* tokenizer, max_length and vram_gb
InitAnalyze ==
    /\ analyze_args \in [dataset : InputDatasets, tokenizer : Tokenizers,
                          max_length : MaxLengths, vram_gb : VramValues]
    /\ analyze_locals = NoLocals
    /\ analyze_result = NoAnalyzeResult
    /\ IdleSplit
    /\ IdleFlatten
    /\ IdleLora
    /\ IdleDist
    /\ IdleDriver
    /\ IdleStop
    /\ IdleVram
    /\ FirstRun

NextAnalyze == analyze_dataset_and_configure

SpecAnalyze == InitAnalyze /\ [][NextAnalyze]_vars

\* the analyzer called, and called again; fewer max_length and vram_gb values
InitAnalyzeRerun ==
    /\ analyze_args \in [dataset : InputDatasets, tokenizer : Tokenizers,
                          max_length : {256, 1024, 32768}, vram_gb : {159, VramThreshold}]
    /\ analyze_locals = NoLocals
    /\ analyze_result = NoAnalyzeResult
    /\ IdleSplit
    /\ IdleFlatten
    /\ IdleLora
    /\ IdleDist
    /\ IdleDriver
    /\ IdleStop
    /\ IdleVram
    /\ FirstRun

NextAnalyzeRerun == analyze_dataset_and_configure \/ rerun_analyze

SpecAnalyzeRerun == InitAnalyzeRerun /\ [][NextAnalyzeRerun]_vars

\* the analyzer called, and called again on the records in another order
NextAnalyzeShuffled == analyze_dataset_and_configure \/ rerun_shuffled

SpecAnalyzeShuffled == InitAnalyzeRerun /\ [][NextAnalyzeShuffled]_vars

----------------------------------------------------------------------------
(* Properties of split_dataset *)

SplitReturned == split_result.status = "returned"

SplitRaisedError == split_result.status = "raised"

RatioSum == split_args.train_ratio + split_args.val_ratio + split_args.test_ratio

\* no row occurs twice in the partition
NoRepeats(s) == Cardinality(Range(s)) = Len(s)

\* C1: whenever split_dataset returns, the sizes of train, validation and test
\* sum to the dataset size, no row index occurs in two partitions (nor twice in
\* one), and the union of the three index sets is the index set of the dataset.
C1_SplitIsPartition ==
    SplitReturned =>
        LET d == split_result.value
        IN  /\ Len(d.train) + Len(d.validation) + Len(d.test) = split_args.total_samples
            /\ NoRepeats(d.train) /\ NoRepeats(d.validation) /\ NoRepeats(d.test)
            /\ Range(d.train) \cap Range(d.validation) = {}
            /\ Range(d.train) \cap Range(d.test) = {}
            /\ Range(d.validation) \cap Range(d.test) = {}
            /\ Range(d.train) \cup Range(d.validation) \cup Range(d.test)
                   = 1..split_args.total_samples

\* a split of the driver's ratios (0.8, 0.1, 0.1) returned three non-empty partitions
C1_Witness ==
    /\ SplitReturned
    /\ split_args.train_ratio = 8000000 /\ split_args.val_ratio = 1000000
    /\ split_args.test_ratio = 1000000
    /\ split_args.total_samples >= 5
    /\ split_result.value.train # <<>>
    /\ split_result.value.validation # <<>>
    /\ split_result.value.test # <<>>

----------------------------------------------------------------------------
(* Properties of analyze_dataset_and_configure *)

AnalyzeReturned == analyze_result.status = "returned"

Config == analyze_result.dynamic_config

\* the sequence length after lines 59-60, before the batch tiering
StepSix == analyze_locals.determined_max_seq_length

\* the length column of the returned dataset, in row order
RowLengths == [i \in 1..Len(analyze_result.dataset.rows) |-> analyze_result.dataset.rows[i].length]

BatchTriple ==
    <<Config.per_device_train_batch_size, Config.gradient_accumulation_steps,
      Config.effective_batch_size>>

\* the dataset of the percentile example: 94 rows of 100 tokens, one of 5000
ExampleCall ==
    /\ analyze_args.tokenizer = "qwen"
    /\ analyze_args.dataset.column_names = {"messages"}
    /\ Len(analyze_args.dataset.rows) = 95
    /\ \A i \in 1..94 : analyze_args.dataset.rows[i].messages = <<[content |-> "doc_s"]>>
    /\ Len(analyze_args.dataset.rows[95].messages) = 3

\* C2: the max_seq_length of a returned configuration never exceeds max_length.
C2_NeverExceedsMaxLength ==
    AnalyzeReturned => Config.max_seq_length <= analyze_args.max_length

\* clamp(x, lower_bound, upper_bound): x brought into [lower_bound, upper_bound]
Clamp(x, lower_bound, upper_bound) == Min(Max(x, lower_bound), upper_bound)

\* C3: before batch tiering, max_seq_length is
\* clamp(min(max_length, p95 + 256), 512, max_length), and the percentile example
\* with max_length = 32768 gives 512.
C3_StepSixIsClamp ==
    AnalyzeReturned =>
        /\ StepSix = Clamp(Min(analyze_args.max_length, analyze_locals.p95_length + 256),
                           512, analyze_args.max_length)
        /\ (ExampleCall /\ analyze_args.max_length = 32768) => StepSix = 512

\* C4: the max_seq_length of a returned configuration is never below 512.
C4_NeverBelowFloor ==
    AnalyzeReturned => Config.max_seq_length >= 512

\* a call with max_length below 512 returned, and one where the cap of 8192 acted
C4_Witness ==
    /\ AnalyzeReturned
    /\ \/ analyze_args.max_length < 512 /\ Config.max_seq_length = 512
       \/ StepSix > 8192 /\ Config.max_seq_length = 8192

\* C5: p95 is the element at index floor(0.95 * N) of the ascending lengths:
\* at most that many rows are shorter than p95 and more than that many are not
\* longer; in the example of 94 rows of 100 tokens and one of 5000 it is 100.
C5_IndexBasedPercentile ==
    AnalyzeReturned =>
        LET n     == Len(RowLengths)
            index == (95 * n) \div 100
            p95   == analyze_locals.p95_length
        IN  /\ Cardinality({i \in 1..n : RowLengths[i] < p95}) <= index
            /\ Cardinality({i \in 1..n : RowLengths[i] <= p95}) > index
            /\ \E i \in 1..n : RowLengths[i] = p95
            /\ ExampleCall => (index = 90 /\ p95 = 100)

\* the example was analysed: its outlier of 5000 tokens is in the returned
\* dataset and the percentile is 100
C5_Witness ==
    /\ AnalyzeReturned
    /\ ExampleCall
    /\ RowLengths[95] = 5000
    /\ analyze_locals.p95_length = 100

\* C6: with vram_gb >= 16.0 the batch size, accumulation steps and effective
\* batch size follow the bucket of the step-6 max_seq_length, first bound that
\* holds: <= 1024 (2, 8, 16); <= 2048 (1, 16, 16); <= 4096 (1, 32, 32); larger
\* (1, 64, 64).
C6_TierTable ==
    (AnalyzeReturned /\ analyze_args.vram_gb >= 160) =>
        BatchTriple = IF StepSix <= 1024 THEN <<2, 8, 16>>
                      ELSE IF StepSix <= 2048 THEN <<1, 16, 16>>
                      ELSE IF StepSix <= 4096 THEN <<1, 32, 32>>
                      ELSE <<1, 64, 64>>

\* a step-6 value on the boundary 4096 was put in the bucket below it
C6_Witness ==
    /\ AnalyzeReturned
    /\ analyze_args.vram_gb = 160
    /\ StepSix = 4096
    /\ BatchTriple = <<1, 32, 32>>

\* C7: with vram_gb >= 16.0 and a step-6 max_seq_length above 4096 the final
\* max_seq_length is min(step-6 value, 8192) and the batch settings are
\* (1, 64, 64); a step-6 value of 10000 gives 8192.
C7_CapAbove4096 ==
    (AnalyzeReturned /\ analyze_args.vram_gb >= 160 /\ StepSix > 4096) =>
        /\ Config.max_seq_length = Min(StepSix, 8192)
        /\ BatchTriple = <<1, 64, 64>>
        /\ StepSix = 10000 => Config.max_seq_length = 8192

\* a step-6 value of 10000 was capped
C7_Witness ==
    /\ AnalyzeReturned
    /\ analyze_args.vram_gb >= 160
    /\ StepSix = 10000
    /\ Config.max_seq_length = 8192

\* C8: with vram_gb below 16.0 the batch size stays 1 and the accumulation
\* steps stay 16, whatever the sequence length.
C8_DefaultsBelowThreshold ==
    (AnalyzeReturned /\ analyze_args.vram_gb < 160) =>
        /\ Config.per_device_train_batch_size = 1
        /\ Config.gradient_accumulation_steps = 16

\* a call with 15.9 GB returned the defaults for a short sequence length
C8_Witness ==
    /\ AnalyzeReturned
    /\ analyze_args.vram_gb = 159
    /\ StepSix <= 1024
    /\ Config.per_device_train_batch_size = 1
    /\ Config.gradient_accumulation_steps = 16

\* C9: every returned configuration has use_gradient_checkpointing = true and
\* effective_batch_size = per_device_train_batch_size * gradient_accumulation_steps.
C9_CheckpointingAndEffectiveBatch ==
    AnalyzeReturned =>
        /\ Config.use_gradient_checkpointing = TRUE
        /\ Config.effective_batch_size
              = Config.per_device_train_batch_size * Config.gradient_accumulation_steps

\* a configuration of the last bucket was returned
C9_Witness ==
    /\ AnalyzeReturned
    /\ Config.gradient_accumulation_steps = 64
    /\ Config.effective_batch_size = 64

----------------------------------------------------------------------------
(* Properties of repeated and two-stage splitting *)

WithinRecords(size, ratio, bound) ==
    Abs(size * RatioOne - ratio * split_args.total_samples) < bound * RatioOne

----------------------------------------------------------------------------
(* _format_messages_to_text called on its own *)

\* messages with and without a role and a content
Messages ==
    UNION { {[role |-> r, content |-> c], [role |-> r], [content |-> c]} :
                <<r, c>> \in {"user", "assistant", "system"} \X {"", "hi", "doc_s"} }
    \cup {[role |-> "user", content |-> "hi"], [id |-> "m1"]}

RECURSIVE SeqsUpTo(_, _)
\* the sequences over S of length at most n
SeqsUpTo(S, n) ==
    IF n = 0 THEN {<<>>}
    ELSE LET shorter == SeqsUpTo(S, n - 1)
         IN  shorter \cup {Append(q, x) : q \in shorter, x \in S}

InitFlatten ==
    /\ flatten_args \in {NoFlattenArgs} \cup
                         [given : {TRUE}, messages : SeqsUpTo(Messages, MaxMessages)]
    /\ flatten_result = NoFlattenResult
    /\ IdleSplit
    /\ IdleAnalyze
    /\ IdleLora
    /\ IdleDist
    /\ IdleDriver
    /\ IdleStop
    /\ IdleVram
    /\ FirstRun

NextFlatten == call_format_messages_to_text

SpecFlatten == InitFlatten /\ [][NextFlatten]_vars

----------------------------------------------------------------------------
(* get_dynamic_lora_config called on its own *)

\* MODEL_NAME of the two training drivers
QwenName == <<"Q", "w", "e", "n", "/", "Q", "w", "e", "n", "3", "-", "0", ".", "6", "B">>

GemmaName == <<"g", "o", "o", "g", "l", "e", "/", "g", "e", "m", "m", "a", "-", "3", "-", "2", "7", "0", "m", "-", "i", "t">>

Some7bName == <<"s", "o", "m", "e", "-", "7", "b", "-", "m", "o", "d", "e", "l">>

UnknownName == <<"u", "n", "k", "n", "o", "w", "n", "-", "m", "o", "d", "e", "l", "-", "x", "y", "z">>

NamePrefixes == {<<>>, <<"o", "r", "g", "/", "M", "-">>, <<"1", "B", "-">>, <<"7", "b", "-">>}

NameSizes ==
    { <<"0", ".", "5", "b">>,
      <<"0", ".", "6", "B">>,
      <<"2", "7", "0", "m">>,
      <<"2", "7", "0", "M">>,
      <<"1", ".", "5", "B">>,
      <<"1", "b">>,
      <<"1", ".", "7", "b">>,
      <<"6", "b">>,
      <<"7", "B">>,
      <<"3", "b">>,
      <<"1", "1", "B">>,
      <<"1", "6", "b">>,
      <<"7", "0", "b">>,
      <<"0", ".", "5">>,
      <<"6">>,
      <<"b">>,
      <<"x", "y", "z">>,
      <<>> }

NameSuffixes == {<<>>, <<"-", "i", "t">>, <<"-", "B", "a", "s", "e">>}

ModelNames ==
    {QwenName, GemmaName, Some7bName, UnknownName} \cup
    {p \o z \o x : p \in NamePrefixes, z \in NameSizes, x \in NameSuffixes}

InitLora ==
    /\ lora_args \in [model_name : ModelNames, max_seq_length : {512, 2048}]
    /\ lora_result = NoLoraResult
    /\ IdleSplit
    /\ IdleAnalyze
    /\ IdleFlatten
    /\ IdleDist
    /\ IdleDriver
    /\ IdleStop
    /\ IdleVram
    /\ FirstRun

NextLora == get_dynamic_lora_config

SpecLora == InitLora /\ [][NextLora]_vars

----------------------------------------------------------------------------
(* analyze_split_distribution called on its own *)

\* a row of a dataset that has a text column and no messages column
TextRow(text) == [messages |-> <<>>, text |-> text, length |-> 0]

\* the splits handed in: with messages, with text, with both, with neither;
\* empty, of one row and of two rows
SplitDatasets ==
    { [column_names |-> {"messages"}, rows |-> r] :
          r \in { <<>>,
                  <<FreshRow(<<[role |-> "user", content |-> "hi"]>>)>>,
                  <<FreshRow(<<[role |-> "user", content |-> "doc_m"]>>),
                    FreshRow(<<[content |-> "doc_s"]>>)>> } }
    \cup
    { [column_names |-> {"text"}, rows |-> r] :
          r \in { <<>>,
                  <<TextRow(<<"user", ": ", "doc_s">>)>>,
                  <<TextRow(<<>>), TextRow(<<"user", ": ", "doc_l">>)>> } }
    \cup
    { [column_names |-> {"messages", "text", "length"}, rows |-> r] :
          r \in { <<>>, <<StaleRow(<<[role |-> "user", content |-> "hi"]>>)>> } }
    \cup
    { [column_names |-> {"prompt"}, rows |-> r] : r \in { <<>>, <<FreshRow(<<>>)>> } }

InitDist ==
    /\ dist_args \in [dataset_dict : [Range(SplitOrder) -> SplitDatasets], tokenizer : Tokenizers]
    /\ dataset_dict = dist_args.dataset_dict
    /\ dist_result = NoDistResult
    /\ IdleSplit
    /\ IdleAnalyze
    /\ IdleFlatten
    /\ IdleLora
    /\ IdleDriver
    /\ IdleStop
    /\ IdleVram
    /\ FirstRun

NextDist == analyze_split_distribution

SpecDist == InitDist /\ [][NextDist]_vars

----------------------------------------------------------------------------
(* VRAMMonitorCallback; used_percent and threshold_percent are whole
   percents.  What the device reports at one step is a record:
     kind "unavailable"  pynvml did not import or CUDA is not available
     kind "error"        a pynvml call, or the division by total, raises
     kind "read"         used_percent was computed; clear_raises says whether
                         gc.collect() or torch.cuda.empty_cache() raises
   The usage line printed every 50 steps changes no state and is left out. *)

\* the margin below the threshold at which the warning is armed again
ResetMargin == 5

\* on_step_end that arms the warning again as soon as usage is below the
\* threshold itself
OnStepEndResetAtThreshold(self, telemetry) ==
    IF telemetry.kind = "unavailable"
    THEN [self |-> self, events |-> <<>>, returned |-> "control"]
    ELSE IF telemetry.kind = "error"
    THEN [self |-> self, events |-> <<>>, returned |-> "control"]
    ELSE LET used_percent == telemetry.used_percent
             triggers == used_percent > self.threshold_percent
                         /\ ~self.oom_warning_shown
         IN  IF triggers /\ telemetry.clear_raises
             THEN [self |-> self, events |-> <<"warning">>, returned |-> "control"]
             ELSE LET warned == IF triggers
                                THEN [self EXCEPT !.oom_warning_shown = TRUE]
                                ELSE self
                  IN  [self |-> IF used_percent < self.threshold_percent
                                THEN [warned EXCEPT !.oom_warning_shown = FALSE]
                                ELSE warned,
                       events |-> IF triggers THEN <<"warning", "cache_cleared">>
                                  ELSE <<>>,
                       returned |-> "control"]

\* on_step_end(args, state, control): the callback after the call, what it
\* did, and what it returned
OnStepEnd(self, telemetry) ==
    IF telemetry.kind = "unavailable"
    THEN [self |-> self, events |-> <<>>, returned |-> "control"]
    ELSE IF telemetry.kind = "error"
    THEN [self |-> self, events |-> <<>>, returned |-> "control"]
    ELSE LET used_percent == telemetry.used_percent
             triggers == used_percent > self.threshold_percent
                         /\ ~self.oom_warning_shown
         IN  IF triggers /\ telemetry.clear_raises
             THEN [self |-> self, events |-> <<"warning">>, returned |-> "control"]
             ELSE LET warned == IF triggers
                                THEN [self EXCEPT !.oom_warning_shown = TRUE]
                                ELSE self
                  IN  [self |-> IF used_percent < self.threshold_percent - ResetMargin
                                THEN [warned EXCEPT !.oom_warning_shown = FALSE]
                                ELSE warned,
                       events |-> IF triggers THEN <<"warning", "cache_cleared">>
                                  ELSE <<>>,
                       returned |-> "control"]

\* usage around the two marks of a callback: below threshold - 5, at it,
\* between the marks, at the threshold and above it
UsageOffsets == {0 - 6, 0 - 5, 0 - 3, 0, 1}

\* what the device can report at one step to a callback with this threshold
Telemetry(threshold_percent) ==
    { [kind |-> "unavailable", used_percent |-> 0, clear_raises |-> FALSE],
      [kind |-> "error", used_percent |-> 0, clear_raises |-> FALSE] }
    \cup { [kind |-> "read", used_percent |-> threshold_percent + off,
            clear_raises |-> FALSE] : off \in UsageOffsets }
    \cup { [kind |-> "read", used_percent |-> threshold_percent + 1,
            clear_raises |-> TRUE] }

\* a training step ends and the trainer calls on_step_end
VRAMMonitorCallback_on_step_end ==
    /\ Len(vram_log) < MaxSteps
    /\ \E telemetry \in Telemetry(vram_monitor.threshold_percent) :
          LET after == OnStepEnd(vram_monitor, telemetry)
          IN  /\ vram_monitor' = after.self
              /\ vram_log' = Append(vram_log,
                                    [telemetry |-> telemetry,
                                     shown_before |-> vram_monitor.oom_warning_shown,
                                     shown_after |-> after.self.oom_warning_shown,
                                     events |-> after.events,
                                     returned |-> after.returned])
    /\ UNCHANGED <<splitVars, analyzeVars, rerunVars, flattenVars, loraVars, distVars, driverVars, stopVars>>

\* VRAMMonitorCallback(threshold_percent) as constructed: 95.0 is the
\* default and what the driver passes
InitVram ==
    /\ vram_monitor \in [threshold_percent : {95, 50}, oom_warning_shown : {FALSE}]
    /\ vram_log = <<>>
    /\ IdleSplit
    /\ IdleAnalyze
    /\ IdleFlatten
    /\ IdleLora
    /\ IdleDist
    /\ IdleDriver
    /\ IdleStop
    /\ FirstRun

NextVram == VRAMMonitorCallback_on_step_end

SpecVram == InitVram /\ [][NextVram]_vars

----------------------------------------------------------------------------
(* EarlyStoppingCallback; a loss is an integer number of thousandths *)

\* float('inf'): above every loss of the model
Infinity == 1000000

\* best_loss - min_delta, where inf - min_delta is inf
ImprovementBound(best_loss, min_delta) ==
    IF best_loss = Infinity THEN Infinity ELSE best_loss - min_delta

\* metrics without the key eval_loss
NoMetrics == [has_eval_loss |-> FALSE, eval_loss |-> 0]

\* eval_loss values of the model: 2.0, 1.5, 1.0, 0.999, 0.99
EvalLosses == {2000, 1500, 1000, 999, 990}

Metrics == {NoMetrics} \cup [has_eval_loss : {TRUE}, eval_loss : EvalLosses]

\* on_evaluate that leaves the counter as it is when the loss improves
OnEvaluateNoReset(self, control, metrics) ==
    IF ~metrics.has_eval_loss
    THEN [self |-> self, control |-> control]
    ELSE IF metrics.eval_loss < ImprovementBound(self.best_loss, self.min_delta)
    THEN [self |-> [self EXCEPT !.best_loss = metrics.eval_loss], control |-> control]
    ELSE [self |-> [self EXCEPT !.counter = @ + 1],
          control |-> IF self.counter + 1 >= self.patience
                      THEN [control EXCEPT !.should_training_stop = TRUE]
                      ELSE control]

\* on_evaluate that takes the loss of every evaluation as the new best_loss
\* and resets the counter only for an improvement of more than min_delta
OnEvaluateTrackAny(self, control, metrics) ==
    IF ~metrics.has_eval_loss
    THEN [self |-> self, control |-> control]
    ELSE IF metrics.eval_loss < ImprovementBound(self.best_loss, self.min_delta)
    THEN [self |-> [self EXCEPT !.best_loss = metrics.eval_loss, !.counter = 0],
          control |-> control]
    ELSE [self |-> [self EXCEPT !.counter = @ + 1, !.best_loss = metrics.eval_loss],
          control |-> IF self.counter + 1 >= self.patience
                      THEN [control EXCEPT !.should_training_stop = TRUE]
                      ELSE control]

\* EarlyStoppingCallback.on_evaluate(args, state, control, metrics): the object
\* and the control afterwards
OnEvaluate(self, control, metrics) ==
    IF ~metrics.has_eval_loss
    THEN [self |-> self, control |-> control]
    ELSE IF metrics.eval_loss < ImprovementBound(self.best_loss, self.min_delta)
    THEN [self |-> [self EXCEPT !.best_loss = metrics.eval_loss, !.counter = 0],
          control |-> control]
    ELSE [self |-> [self EXCEPT !.counter = @ + 1],
          control |-> IF self.counter + 1 >= self.patience
                      THEN [control EXCEPT !.should_training_stop = TRUE]
                      ELSE control]

\* the trainer evaluates and calls on_evaluate with the metrics
EarlyStoppingCallback_on_evaluate ==
    /\ Len(stop_log) < MaxEvaluations
    /\ \E metrics \in Metrics :
          LET after == OnEvaluate(early_stopping, stop_control, metrics)
          IN  /\ early_stopping' = after.self
              /\ stop_control' = after.control
              /\ stop_log' = Append(stop_log,
                                    [metrics |-> metrics, before |-> early_stopping,
                                     stop_before |-> stop_control.should_training_stop,
                                     after |-> after.self,
                                     stop_after |-> after.control.should_training_stop])
    /\ UNCHANGED <<splitVars, analyzeVars, rerunVars, flattenVars, loraVars, distVars, driverVars, vramVars>>

\* EarlyStoppingCallback(patience, min_delta) as constructed, min_delta in
\* thousandths, and the control of a new training run
InitStop ==
    /\ early_stopping \in [patience : {1, 2, 3}, min_delta : {0, 1, 10},
                           best_loss : {Infinity}, counter : {0}]
    /\ stop_control = NoControl
    /\ stop_log = <<>>
    /\ IdleSplit
    /\ IdleAnalyze
    /\ IdleFlatten
    /\ IdleLora
    /\ IdleDist
    /\ IdleDriver
    /\ IdleVram
    /\ FirstRun

NextStop == EarlyStoppingCallback_on_evaluate

SpecStop == InitStop /\ [][NextStop]_vars

----------------------------------------------------------------------------
(* main() of the two training drivers, scripts/train.py of fine-tuning-project
   ("gpu") and of fine-tuning-tpu ("tpu"), statement by statement from the
   split to the final validation.  Both files use the name USE_WANDB before
   their "global USE_WANDB" statement, which CPython rejects when it compiles
   the file; the model follows the statements of main() in their order. *)

Scripts == {"gpu", "tpu"}

\* VRAM_GB = 16.0 of the gpu driver and vram_gb=16.0 of the tpu driver
DriverVram == 160

\* max_length=32768 of both drivers
DriverMaxLength == 32768

\* AutoTokenizer.from_pretrained(MODEL_NAME)
DriverTokenizer(script) == IF script = "gpu" THEN "qwen" ELSE "gemma"

DriverModelName(script) == IF script = "gpu" THEN QwenName ELSE GemmaName

\* one access to a partition
Read(step, split) == [step |-> step, split |-> split, training_complete |-> driver.training_complete]

DriverFailed(error) == [driver EXCEPT !.pc = "failed", !.error = error]

DriverIdleRest ==
    UNCHANGED <<driver_args, splitVars, analyzeVars, rerunVars, flattenVars, loraVars, distVars, stopVars, vramVars>>

\* dataset_dict = split_dataset(full_dataset, 0.80, 0.10, 0.10, seed=42)
main_split ==
    /\ driver.pc = "split"
    /\ LET rows    == driver_args.dataset.rows
           outcome == SplitOutcome(Len(rows), 8000000, 1000000, 1000000, 42)
           part(indices) == [column_names |-> driver_args.dataset.column_names,
                             rows |-> [i \in 1..Len(indices) |-> rows[indices[i]]]]
       IN  driver' = IF outcome.status = "raised" THEN DriverFailed(outcome.error)
                     ELSE [driver EXCEPT !.pc = "save_test",
                                         !.dataset_dict = [n \in Range(SplitOrder) |->
                                                              part(outcome.value[n])]]
    /\ DriverIdleRest

\* dataset_dict["test"].to_json(test_dataset_path)
main_save_test ==
    /\ driver.pc = "save_test"
    /\ driver' = [driver EXCEPT !.pc = "analyze",
                                !.reads = Append(@, Read("save_test", "test"))]
    /\ DriverIdleRest

\* the tokenizer is loaded and analyze_dataset_and_configure runs on
\* dataset_dict["train"]
main_analyze ==
    /\ driver.pc = "analyze"
    /\ LET outcome == AnalyzeOutcome(driver.dataset_dict["train"],
                                     DriverTokenizer(driver_args.script),
                                     DriverMaxLength, DriverVram).result
       IN  driver' = IF outcome.status = "raised"
                     THEN [DriverFailed(outcome.error) EXCEPT
                               !.reads = Append(@, Read("analyze", "train"))]
                     ELSE [driver EXCEPT
                               !.pc = IF driver_args.script = "tpu" THEN "override"
                                      ELSE "distribution",
                               !.dynamic_config = outcome.dynamic_config,
                               !.reads = Append(@, Read("analyze", "train"))]
    /\ DriverIdleRest

\* tpu driver only: the batch size and the gradient accumulation of
\* dynamic_config are overwritten and global_batch_size is added
main_override ==
    /\ driver.pc = "override"
    /\ LET per_device   == driver_args.batch_size_per_replica
           accumulation == Max(1, 256 \div driver_args.batch_size_per_replica)
       IN  driver' = [driver EXCEPT
                         !.pc = "distribution",
                         !.dynamic_config.per_device_train_batch_size = per_device,
                         !.dynamic_config.gradient_accumulation_steps = accumulation,
                         !.global_batch_size = per_device * driver_args.world_size * accumulation]
    /\ DriverIdleRest

\* analyze_split_distribution(dataset_dict, tokenizer): the loop visits every
\* item of dataset_dict
main_distribution ==
    /\ driver.pc = "distribution"
    /\ LET outcome == DistLoop(SplitOrder, driver.dataset_dict,
                               DriverTokenizer(driver_args.script), <<>>)
           visited == [i \in 1..Len(SplitOrder) |-> Read("distribution", SplitOrder[i])]
       IN  driver' = IF outcome.result.status = "raised"
                     THEN [DriverFailed(outcome.result.error) EXCEPT !.reads = @ \o visited]
                     ELSE [driver EXCEPT !.pc = "lora",
                                         !.dataset_dict = outcome.dataset_dict,
                                         !.reads = @ \o visited]
    /\ DriverIdleRest

\* the model is loaded and get_dynamic_lora_config(MODEL_NAME, max_seq_length) runs
main_lora ==
    /\ driver.pc = "lora"
    /\ driver' = [driver EXCEPT
                     !.pc = "training_args",
                     !.lora_config = LoraConfig(DriverModelName(driver_args.script),
                                                driver.dynamic_config.max_seq_length)]
    /\ DriverIdleRest

\* training_args = TrainingArguments(...); the tpu driver passes
\* gradient_checkpointing=False
main_training_args ==
    /\ driver.pc = "training_args"
    /\ driver' = [driver EXCEPT
                     !.pc = "callbacks",
                     !.training_args =
                         [per_device_train_batch_size |->
                              driver.dynamic_config.per_device_train_batch_size,
                          gradient_accumulation_steps |->
                              driver.dynamic_config.gradient_accumulation_steps,
                          gradient_checkpointing |->
                              IF driver_args.script = "gpu"
                              THEN driver.dynamic_config.use_gradient_checkpointing
                              ELSE FALSE]]
    /\ DriverIdleRest

\* callbacks = [..., DynamicConfigCallback(dynamic_config), ...]
main_callbacks ==
    /\ driver.pc = "callbacks"
    /\ driver' = [driver EXCEPT !.pc = "trainer", !.callback_config = driver.dynamic_config]
    /\ DriverIdleRest

\* the trainer is built on dataset_dict["train"] and dataset_dict["validation"]
main_trainer ==
    /\ driver.pc = "trainer"
    /\ driver' = [driver EXCEPT
                     !.pc = "train",
                     !.reads = @ \o <<Read("trainer", "train"), Read("trainer", "validation")>>]
    /\ DriverIdleRest

\* train_result = trainer.train()
main_train ==
    /\ driver.pc = "train"
    /\ driver' = [driver EXCEPT
                     !.pc = "evaluate",
                     !.reads = @ \o <<Read("train", "train"), Read("train", "validation")>>,
                     !.training_complete = TRUE]
    /\ DriverIdleRest

\* the model is saved and val_results = trainer.evaluate() runs
main_evaluate ==
    /\ driver.pc = "evaluate"
    /\ driver' = [driver EXCEPT !.pc = "done",
                                !.reads = Append(@, Read("evaluate", "validation"))]
    /\ DriverIdleRest

\* the datasets the drivers load: 0, 2, 10 and 21 rows
DriverDatasets ==
    { [column_names |-> {"messages"},
       rows |-> Bulk(FreshRow(<<[role |-> "user", content |-> "hi"]>>), shape[1])
                \o Bulk(FreshRow(c), shape[2])]
        : c \in Conversations, shape \in {<<0, 0>>, <<1, 1>>, <<9, 1>>, <<20, 1>>} }

\* --batch_size_per_replica (default 128) and xm.xrt_world_size() matter to
\* the tpu driver only
InitDriver ==
    /\ driver_args \in
          [script : {"gpu"}, dataset : DriverDatasets, batch_size_per_replica : {128},
           world_size : {1}]
          \cup
          [script : {"tpu"}, dataset : DriverDatasets, batch_size_per_replica : {1, 16, 128, 512},
           world_size : {1, 8}]
    /\ driver = [NoDriver EXCEPT !.pc = "split"]
    /\ IdleSplit
    /\ IdleAnalyze
    /\ IdleFlatten
    /\ IdleLora
    /\ IdleDist
    /\ IdleStop
    /\ IdleVram
    /\ FirstRun

NextDriver ==
    \/ main_split
    \/ main_save_test
    \/ main_analyze
    \/ main_override
    \/ main_distribution
    \/ main_lora
    \/ main_training_args
    \/ main_callbacks
    \/ main_trainer
    \/ main_train
    \/ main_evaluate

SpecDriver == InitDriver /\ [][NextDriver]_vars

----------------------------------------------------------------------------
(* Properties of the analyzer's dataset handling *)

C14_TextAndLengthRegenerated ==
    AnalyzeReturned =>
        /\ Len(analyze_result.dataset.rows) = Len(analyze_args.dataset.rows)
        /\ \A i \in 1..Len(analyze_result.dataset.rows) :
              LET row == analyze_result.dataset.rows[i]
              IN  /\ row.messages = analyze_args.dataset.rows[i].messages
                  /\ row.text = format_messages_to_text(row.messages)
                  /\ row.length = TokenCount(analyze_args.tokenizer, row.text)

\* a row that came with another text and length was returned with both replaced
C14_Witness ==
    /\ AnalyzeReturned
    /\ "text" \in analyze_args.dataset.column_names
    /\ \E i \in 1..Len(analyze_result.dataset.rows) :
          /\ analyze_args.dataset.rows[i].text # analyze_result.dataset.rows[i].text
          /\ analyze_args.dataset.rows[i].length # analyze_result.dataset.rows[i].length
          /\ analyze_result.dataset.rows[i].length > 7

\* C15: a later run with the same tokenizer, max_length and vram_gb, on the same
\* dataset or on the dataset an earlier run returned, gives the configuration
\* and the per-row texts and lengths of every earlier run.
C15_AnalyzeRepeatable ==
    AnalyzeReturned =>
        \A k \in 1..Len(analyze_history) :
            /\ analyze_history[k].dynamic_config = analyze_result.dynamic_config
            /\ Len(analyze_history[k].dataset.rows) = Len(analyze_result.dataset.rows)
            /\ \A i \in 1..Len(analyze_result.dataset.rows) :
                  /\ analyze_history[k].dataset.rows[i].length = analyze_result.dataset.rows[i].length
                  /\ analyze_history[k].dataset.rows[i].text = analyze_result.dataset.rows[i].text

\* the analyzer was run again on the dataset its first run returned
C15_Witness ==
    /\ AnalyzeReturned
    /\ Len(analyze_history) >= 1
    /\ analyze_args.dataset = analyze_history[1].dataset
    /\ "length" \in analyze_args.dataset.column_names
    /\ Len(analyze_args.dataset.rows) >= 2
    /\ analyze_result.dynamic_config.max_seq_length > 512

----------------------------------------------------------------------------
(* Properties of _format_messages_to_text *)

\* C16: the call always returns; the text has one line role, ": ", content per
\* message, in message order, with "user" for a missing role and the empty
\* string for a missing content, a newline between consecutive lines and none
\* after the last; an empty or absent list gives the empty text; the list of
\* the one message user/hi gives "user: hi".
C16_OneLinePerMessage ==
    flatten_result.status # "none" =>
        LET messages == IF flatten_args.given THEN flatten_args.messages ELSE <<>>
            n        == Len(messages)
            text     == flatten_result.value
        IN  /\ flatten_result.status = "returned"
            /\ n = 0 => text = <<>>
            /\ n > 0 => Len(text) = 4 * n - 1
            /\ \A i \in 1..n :
                  /\ text[4 * i - 3] = (IF "role" \in DOMAIN messages[i]
                                        THEN messages[i].role ELSE "user")
                  /\ text[4 * i - 2] = ": "
                  /\ text[4 * i - 1] = (IF "content" \in DOMAIN messages[i]
                                        THEN messages[i].content ELSE "")
                  /\ i < n => text[4 * i] = "\n"
            /\ messages = <<[role |-> "user", content |-> "hi"]>> => text = <<"user", ": ", "hi">>

\* two messages, the first without a role and the second without a content,
\* were flattened
C16_Witness ==
    /\ flatten_result.status = "returned"
    /\ flatten_args.given
    /\ Len(flatten_args.messages) = 2
    /\ "role" \notin DOMAIN flatten_args.messages[1]
    /\ "content" \notin DOMAIN flatten_args.messages[2]
    /\ flatten_result.value[4] = "\n"
    /\ Len(flatten_result.value) = 7

----------------------------------------------------------------------------
(* Properties of get_dynamic_lora_config *)

\* the characters a and b are the same letter, whatever their case
SameLetter(a, b) == LowerChar(a) = LowerChar(b)

\* the model name of the call has the marker in it, in any case
NameHas(marker) ==
    \E i \in 1..Len(lora_args.model_name) :
        /\ i + Len(marker) - 1 <= Len(lora_args.model_name)
        /\ \A j \in 1..Len(marker) : SameLetter(lora_args.model_name[i + j - 1], marker[j])

SmallName == NameHas(<<"0", ".", "5", "b">>) \/ NameHas(<<"0", ".", "6", "b">>) \/ NameHas(<<"2", "7", "0", "m">>)

MediumName == NameHas(<<"1", ".", "5", "b">>) \/ NameHas(<<"1", "b">>) \/ NameHas(<<"1", ".", "7", "b">>)

LargeName == NameHas(<<"6", "b">>) \/ NameHas(<<"7", "b">>)

LoraPair == <<lora_result.value.r, lora_result.value.lora_alpha>>

\* C17: the call always returns; its rank and alpha are (8, 16) for a name with
\* 0.5b, 0.6b or 270m in it, else (16, 32) for a name with 1.5b, 1b or 1.7b,
\* else (32, 64) for a name with 6b or 7b, else (16, 32), whatever the case of
\* the letters; Qwen/Qwen3-0.6B gets rank 8.
C17_RankAlphaByFirstMatch ==
    lora_result.status # "none" =>
        /\ lora_result.status = "returned"
        /\ SmallName => LoraPair = <<8, 16>>
        /\ (~SmallName /\ MediumName) => LoraPair = <<16, 32>>
        /\ (~SmallName /\ ~MediumName /\ LargeName) => LoraPair = <<32, 64>>
        /\ (~SmallName /\ ~MediumName /\ ~LargeName) => LoraPair = <<16, 32>>
        /\ lora_args.model_name = QwenName => lora_result.value.r = 8

\* Qwen/Qwen3-0.6B, a name of the first and of the third tier, got its config
C17_Witness ==
    /\ lora_result.status = "returned"
    /\ lora_args.model_name = QwenName
    /\ SmallName /\ LargeName
    /\ LoraPair = <<8, 16>>

----------------------------------------------------------------------------
(* Properties of analyze_split_distribution *)

\* the split the call got under the i-th name
SplitGiven(i) == dist_args.dataset_dict[SplitOrder[i]]

HasTextSource(dataset) ==
    "messages" \in dataset.column_names \/ "text" \in dataset.column_names

\* C19: the call returns without raising and has a line for each of the three
\* splits: a split with neither messages nor text is skipped, an empty split
\* is reported with 0 samples, and every other split gets its statistics.
C19_NeverRaisesReportsEmpty ==
    dist_result.status # "none" =>
        /\ dist_result.status = "returned"
        /\ Len(dist_result.report) = Len(SplitOrder)
        /\ \A i \in 1..Len(dist_result.report) :
              LET entry == dist_result.report[i]
              IN  /\ entry.split_name = SplitOrder[i]
                  /\ ~HasTextSource(SplitGiven(i)) => entry.outcome = "skipped_missing"
                  /\ (HasTextSource(SplitGiven(i)) /\ SplitGiven(i).rows = <<>>) =>
                        (entry.outcome = "zero_samples" /\ entry.samples = 0)
                  /\ (HasTextSource(SplitGiven(i)) /\ SplitGiven(i).rows # <<>>) =>
                        (entry.outcome = "stats" /\ entry.count = Len(SplitGiven(i).rows))

\* C20: after the call the caller's mapping holds the splits it held before,
\* with the same rows and the same columns.
C20_InputUnchanged ==
    dist_result.status # "none" => dataset_dict = dist_args.dataset_dict

\* the statistics of a train split that has only a messages column were
\* reported, from texts derived for two rows, and the split still has only
\* that column
C20_Witness ==
    /\ dist_result.status = "returned"
    /\ dist_result.report[1].outcome = "stats"
    /\ dist_result.report[1].count = 2
    /\ dist_result.report[1].total > 0
    /\ dataset_dict["train"].column_names = {"messages"}
    /\ dataset_dict["train"].rows[1].text = <<>>

----------------------------------------------------------------------------
(* Further properties of split_dataset *)

\* C21: for a dataset of at least ten rows and three non-negative ratios whose
\* sum is within the tolerance of 1.0, the call returns three partitions, and
\* the partition of a ratio that is 0 is empty.
C21_ZeroRatiosSucceed ==
    (/\ split_result.status # "none"
     /\ split_args.total_samples >= 10
     /\ split_args.train_ratio >= 0 /\ split_args.val_ratio >= 0 /\ split_args.test_ratio >= 0
     /\ Abs(RatioSum - RatioOne) < RatioTolerance) =>
        /\ SplitReturned
        /\ split_args.train_ratio = 0 => split_result.value.train = <<>>
        /\ split_args.val_ratio = 0 => split_result.value.validation = <<>>
        /\ split_args.test_ratio = 0 => split_result.value.test = <<>>

----------------------------------------------------------------------------
(* Further properties of analyze_dataset_and_configure *)

\* the number of rows of the dataset that have the given messages
Occurrences(dataset, messages) ==
    Cardinality({i \in 1..Len(dataset.rows) : dataset.rows[i].messages = messages})

\* C22: a run on the same records in another order returns the configuration
\* (max_seq_length, batch size, gradient accumulation and the rest) of the
\* earlier run.
C22_OrderIrrelevant ==
    AnalyzeReturned =>
        \A k \in 1..Len(analyze_history) :
            analyze_history[k].dynamic_config = analyze_result.dynamic_config

\* the second run got the records of the first in another order, with the
\* longest record moved, and returned a sequence length above the floor
C22_Witness ==
    /\ AnalyzeReturned
    /\ Len(analyze_history) = 1
    /\ Len(analyze_result.dataset.rows) = Len(analyze_history[1].dataset.rows)
    /\ \A i \in 1..Len(analyze_result.dataset.rows) :
          Occurrences(analyze_result.dataset, analyze_result.dataset.rows[i].messages)
              = Occurrences(analyze_history[1].dataset, analyze_result.dataset.rows[i].messages)
    /\ \E i \in 1..Len(analyze_result.dataset.rows) :
          /\ analyze_result.dataset.rows[i].length # analyze_history[1].dataset.rows[i].length
          /\ analyze_result.dataset.rows[i].length = Config.max_seq_length - 256
    /\ Config.max_seq_length > 512

----------------------------------------------------------------------------
(* Properties of the training drivers *)

\* C23: in both drivers the configuration DynamicConfigCallback holds, from
\* the moment the callback is built, has effective_batch_size equal to
\* per_device_train_batch_size times gradient_accumulation_steps, and the
\* training arguments carry the same two values.
C23_ConfigUnchangedInDrivers ==
    driver.pc \in {"trainer", "train", "evaluate", "done"} =>
        /\ driver.callback_config.effective_batch_size =
              driver.callback_config.per_device_train_batch_size
                  * driver.callback_config.gradient_accumulation_steps
        /\ driver.training_args.per_device_train_batch_size =
              driver.callback_config.per_device_train_batch_size
        /\ driver.training_args.gradient_accumulation_steps =
              driver.callback_config.gradient_accumulation_steps

\* C24: after the test partition was saved, every access to the test
\* partition comes after trainer.train() has returned.
C24_TestUntouchedUntilTrained ==
    \A i \in 1..Len(driver.reads) :
        (driver.reads[i].split = "test" /\ driver.reads[i].step # "save_test") =>
            driver.reads[i].training_complete

----------------------------------------------------------------------------
(* Further properties of get_dynamic_lora_config *)

\* C25: whenever the call returns use_rslora = TRUE the rank and alpha are
\* those of the large tier, (32, 64); no name with rank 8 or 16 gets use_rslora.
C25_RsloraOnlyLargeTier ==
    (lora_result.status = "returned" /\ lora_result.value.use_rslora) =>
        LoraPair = <<32, 64>>

----------------------------------------------------------------------------
(* Properties of the percentile lookup and of the cap *)

\* C29: for a dataset of N >= 1 rows with a messages column the index
\* floor(0.95 * N) lies in 0..N-1 and the call returns, with a percentile that
\* is one of the N lengths; for N = 0 the call raises and returns no
\* configuration.
C29_LookupInBounds ==
    (analyze_result.status # "none" /\ "messages" \in analyze_args.dataset.column_names) =>
        LET n == Len(analyze_args.dataset.rows)
        IN  /\ n >= 1 =>
                  /\ (95 * n) \div 100 \in 0..(n - 1)
                  /\ AnalyzeReturned
                  /\ Len(analyze_locals.lengths) = n
                  /\ analyze_locals.p95_length
                        = analyze_locals.lengths[((95 * n) \div 100) + 1]
            /\ n = 0 =>
                  /\ analyze_result.status = "raised"
                  /\ analyze_result.dynamic_config = NoConfig
                  /\ analyze_result.dataset = NoDataset

\* an empty dataset that has the text and length columns got as far as the
\* lookup, which was out of range
C29_Witness ==
    /\ analyze_result.status = "raised"
    /\ analyze_result.error.type = "IndexError"
    /\ analyze_args.dataset.rows = <<>>
    /\ analyze_locals.steps = <<"map_text", "map_length", "sorted">>

\* C30: with vram_gb below 16.0 the returned max_seq_length is the step-6
\* value, also above 8192, and the batch settings are (1, 16, 16).
C30_NoCapBelowThreshold ==
    (AnalyzeReturned /\ analyze_args.vram_gb < VramThreshold) =>
        /\ Config.max_seq_length = StepSix
        /\ StepSix <= Max(analyze_args.max_length, 512)
        /\ BatchTriple = <<1, 16, 16>>

\* a call with 15.9 GB returned a max_seq_length above 8192, equal to max_length
C30_Witness ==
    /\ AnalyzeReturned
    /\ analyze_args.vram_gb = 159
    /\ Config.max_seq_length > 8192
    /\ Config.max_seq_length = analyze_args.max_length
    /\ BatchTriple = <<1, 16, 16>>

----------------------------------------------------------------------------
(* Properties of EarlyStoppingCallback *)

\* the k-th evaluation carried a loss that was not more than min_delta below
\* the best_loss of that moment
FailedToImprove(k) ==
    /\ stop_log[k].metrics.has_eval_loss
    /\ stop_log[k].metrics.eval_loss + stop_log[k].before.min_delta >= stop_log[k].before.best_loss

Improved(k) == stop_log[k].metrics.has_eval_loss /\ ~FailedToImprove(k)

\* evaluations j..k that carry a loss all failed to improve, and there are
\* `count` of them
FailedRun(j, k, count) ==
    /\ \A i \in j..k : ~Improved(i)
    /\ Cardinality({i \in j..k : FailedToImprove(i)}) = count

\* C26: should_training_stop becomes true at evaluation k exactly when k is a
\* failed evaluation that completes `patience` failed evaluations in a row,
\* evaluations without an eval_loss not counted; an improving evaluation sets
\* the counter to 0 and an evaluation without an eval_loss leaves best_loss
\* and the counter as they were.
C26_StopsAtPatience ==
    \A k \in 1..Len(stop_log) :
        /\ (~stop_log[k].stop_before /\ stop_log[k].stop_after) <=>
              /\ FailedToImprove(k)
              /\ \E j \in 1..k : FailedRun(j, k, early_stopping.patience)
              /\ \A i \in 1..(k - 1) : ~stop_log[i].stop_after
        /\ Improved(k) => stop_log[k].after.counter = 0
        /\ ~stop_log[k].metrics.has_eval_loss => stop_log[k].after = stop_log[k].before

\* with patience 2: an evaluation failed, one without eval_loss followed, and
\* the next failed evaluation set should_training_stop
C26_Witness ==
    /\ Len(stop_log) = 4
    /\ early_stopping.patience = 2
    /\ Improved(1)
    /\ FailedToImprove(2)
    /\ ~stop_log[3].metrics.has_eval_loss
    /\ FailedToImprove(4)
    /\ ~stop_log[3].stop_after
    /\ stop_control.should_training_stop

\* the lowest eval_loss among the evaluations so far
LowestLoss ==
    CHOOSE x \in {stop_log[k].metrics.eval_loss : k \in {i \in 1..Len(stop_log) : stop_log[i].metrics.has_eval_loss}} :
        \A k \in 1..Len(stop_log) :
            stop_log[k].metrics.has_eval_loss => x <= stop_log[k].metrics.eval_loss

\* C27: no on_evaluate call has raised best_loss, and once an eval_loss was
\* seen best_loss is at least the lowest eval_loss seen and at most that
\* lowest value plus min_delta.
C27_BestLossBounds ==
    /\ \A k \in 1..Len(stop_log) : stop_log[k].after.best_loss <= stop_log[k].before.best_loss
    /\ (\E k \in 1..Len(stop_log) : stop_log[k].metrics.has_eval_loss) =>
          /\ LowestLoss <= early_stopping.best_loss
          /\ early_stopping.best_loss <= LowestLoss + early_stopping.min_delta

\* best_loss is above the lowest loss seen: an improvement of less than
\* min_delta was not recorded
C27_Witness ==
    /\ Len(stop_log) >= 3
    /\ \E k \in 1..Len(stop_log) : stop_log[k].metrics.has_eval_loss
    /\ early_stopping.best_loss > LowestLoss
    /\ early_stopping.best_loss < Infinity
    /\ early_stopping.min_delta = 10

----------------------------------------------------------------------------
(* Properties of VRAMMonitorCallback *)

\* step i printed the warning
Warned(i) == vram_log[i].events # <<>>

\* step i printed the warning and cleared the cache
Cleared(i) == vram_log[i].events = <<"warning", "cache_cleared">>

\* step i observed usage below threshold_percent - 5
ObservedLow(i) ==
    /\ vram_log[i].telemetry.kind = "read"
    /\ vram_log[i].telemetry.used_percent < vram_monitor.threshold_percent - 5

\* step i observed usage above threshold_percent
ObservedHigh(i) ==
    /\ vram_log[i].telemetry.kind = "read"
    /\ vram_log[i].telemetry.used_percent > vram_monitor.threshold_percent

\* C28: after a step that warned and cleared the cache, no later step warns
\* again before some step in between has observed usage below
\* threshold_percent - 5; only a step that observed usage above the threshold
\* warns; a step whose telemetry read raised leaves oom_warning_shown as it
\* was, does nothing, and returns control like every other step.
C28_OnceClearedPerExcursion ==
    \A i \in 1..Len(vram_log) :
        /\ vram_log[i].returned = "control"
        /\ Warned(i) => ObservedHigh(i)
        /\ vram_log[i].telemetry.kind = "error"
              => /\ vram_log[i].shown_after = vram_log[i].shown_before
                 /\ vram_log[i].events = <<>>
        /\ Cleared(i)
              => \A j \in (i + 1)..Len(vram_log) :
                    Warned(j) => \E k \in (i + 1)..(j - 1) : ObservedLow(k)

\* a run that cleared the cache, stayed above the threshold without a second
\* warning, had a read error while the warning was shown, fell below
\* threshold_percent - 5 and then cleared the cache again
C28_Witness ==
    \E i, h, e, k, j \in 1..Len(vram_log) :
        /\ i < h /\ h < k /\ k < j /\ i < e /\ e < k
        /\ Cleared(i)
        /\ ObservedHigh(h) /\ ~Warned(h)
        /\ vram_log[e].telemetry.kind = "error" /\ vram_log[e].shown_before
        /\ ObservedLow(k)
        /\ Cleared(j)

====
